---- MODULE Spec2Model ----
(***************************************************************************)
(* Model of the bzr-portal scripts: the three DOCX template generators     *)
(* (create_template.py, backend/scripts/generate-template.py,              *)
(* backend/scripts/generate-docx-template.py) and the reporting stub       *)
(* backend/merge_all_results.py.                                           *)
(*                                                                         *)
(* Each script is a straight-line program of builder calls.  A run is a    *)
(* process that executes the program one statement at a time; a statement  *)
(* may raise.  The document under construction is the sequence of block    *)
(* elements of the body, in document order.  Placeholder text is kept as   *)
(* the sequence of Mustache tokens it contains, static text is dropped.    *)
(***************************************************************************)
EXTENDS Integers, Sequences, FiniteSets, TLC

(***************************************************************************)
(* Bounds                                                                  *)
(***************************************************************************)
MaxRuns == 2
MaxPositions == 2

(***************************************************************************)
(* Mustache tokens                                                         *)
(***************************************************************************)
Fld(n) == [t |-> "field", name |-> n]
Open(n) == [t |-> "open", name |-> n]
Close(n) == [t |-> "close", name |-> n]

(***************************************************************************)
(* Risk-level statements restated in the static text                       *)
(*   "le":   R <= a        "gtle": a < R <= b                              *)
(*   "rng":  a-b           "gt":   R > a                                   *)
(***************************************************************************)
Thr(level, rel, a, b) == [level |-> level, rel |-> rel, a |-> a, b |-> b]

(***************************************************************************)
(* Statements                                                              *)
(***************************************************************************)
Stmt(k, ln) ==
  [op |-> k, ln |-> ln, toks |-> <<>>, thr |-> <<>>, r |-> 0, c |-> 0,
   rows |-> 0, cols |-> 0, cells |-> <<>>, path |-> <<>>, mode |-> "",
   tag |-> ""]

Imp(ln) == Stmt("import", ln)
Doc(ln) == Stmt("document", ln)
Sty(ln) == Stmt("style", ln)
Para(ln, toks) == [Stmt("para", ln) EXCEPT !.toks = toks]
ParaT(ln, toks, thr) == [Stmt("para", ln) EXCEPT !.toks = toks, !.thr = thr]
Run(ln, toks) == [Stmt("run", ln) EXCEPT !.toks = toks]
RunT(ln, toks, thr) == [Stmt("run", ln) EXCEPT !.toks = toks, !.thr = thr]
Hdg(ln, toks) == [Stmt("heading", ln) EXCEPT !.toks = toks]
Brk(ln) == Stmt("break", ln)
Tbl(ln, rows, cols) == [Stmt("table", ln) EXCEPT !.rows = rows, !.cols = cols]
SetRow(ln, i, cells) == [Stmt("setrow", ln) EXCEPT !.r = i, !.cells = cells]
SetCell(ln, i, j, toks) == [Stmt("setcell", ln) EXCEPT !.r = i, !.c = j, !.toks = toks]
Save(ln, path) == [Stmt("save", ln) EXCEPT !.path = path]
Prn(ln, tag) == [Stmt("print", ln) EXCEPT !.tag = tag]
Try(ln) == Stmt("try", ln)
Ret(ln) == Stmt("exit", ln)
OpenF(ln, path, mode) == [Stmt("open", ln) EXCEPT !.path = path, !.mode = mode]
Load(ln) == Stmt("load", ln)
GetKey(ln, key) == [Stmt("getkey", ln) EXCEPT !.tag = key]
Asg(ln, var) == [Stmt("assign", ln) EXCEPT !.tag = var]
AddRowS(ln) == Stmt("addrow", ln)

\* for i, x in enumerate(data): row = table.rows[i]; cells[0] = label; cells[1] = value
RowLoop(ln, data) == [i \in 1..Len(data) |-> SetRow(ln, i - 1, data[i])]
\* for i, x in enumerate(data): table.rows[r].cells[i].text = x
CellLoop(ln, r, data) == [i \in 1..Len(data) |-> SetCell(ln, r, i - 1, data[i])]

(***************************************************************************)
(* create_template.py                                                      *)
(***************************************************************************)
cells_data ==
  << <<<<>>, <<Fld("company.name")>>>>,
     <<<<>>, <<Fld("company.address")>>>>,
     <<<<>>, <<Fld("company.pib")>>>>,
     <<<<>>, <<Fld("company.registration_number")>>>>,
     <<<<>>, <<Fld("company.activity_code")>>>>,
     <<<<>>, <<Fld("company.director")>>>>,
     <<<<>>, <<Fld("company.bzr_responsible_person")>>>> >>

position_data ==
  << <<<<>>, <<Fld("position_code")>>>>,
     <<<<>>, <<Fld("department")>>>>,
     <<<<>>, <<Fld("required_education")>>>>,
     <<<<>>, <<Fld("employees_male"), Fld("employees_female")>>>>,
     <<<<>>, <<Fld("work_hours_daily")>>>>,
     <<<<>>, <<Fld("job_description")>>>>,
     <<<<>>, <<Fld("workspace")>>>> >>

risk_data ==
  << <<<<>>, <<Fld("hazard.hazard_code"), Fld("hazard.hazard_name_sr")>>>>,
     <<<<>>, <<>>>>,
     <<<<>>, <<>>>>,
     <<<<>>, <<Fld("initial_e")>>>>,
     <<<<>>, <<Fld("initial_p")>>>>,
     <<<<>>, <<Fld("initial_f")>>>>,
     <<<<>>, <<Fld("initial_ri")>>>>,
     <<<<>>, <<>>>>,
     <<<<>>, <<Fld("corrective_measures")>>>>,
     <<<<>>, <<>>>>,
     <<<<>>, <<>>>>,
     <<<<>>, <<Fld("residual_e")>>>>,
     <<<<>>, <<Fld("residual_p")>>>>,
     <<<<>>, <<Fld("residual_f")>>>>,
     <<<<>>, <<Fld("residual_r")>>>>,
     <<<<>>, <<Fld("responsible_person")>>>> >>

create_headers == << <<>>, <<>>, <<>>, <<>>, <<>> >>

\* a fifth signature line without a fifth table row
sig_data_five ==
  << <<<<>>, <<Fld("company.bzr_responsible_person")>>>>,
     <<<<>>, <<>>>>,
     <<<<>>, <<Fld("generated_date")>>>>,
     <<<<>>, <<Fld("company.director")>>>>,
     <<<<>>, <<>>>> >>

sig_data ==
  << <<<<>>, <<Fld("company.bzr_responsible_person")>>>>,
     <<<<>>, <<>>>>,
     <<<<>>, <<Fld("generated_date")>>>>,
     <<<<>>, <<Fld("company.director")>>>> >>

create_output_path == <<"backend", "templates", "Akt_Procena_Rizika_Template.docx">>

CreateCover ==
  << Imp(8), Doc(13), Sty(17),
     Para(26, <<>>), Run(28, <<>>), Para(33, <<>>),
     Para(35, <<>>), Run(37, <<Fld("company.name")>>),
     Para(42, <<>>), Para(43, <<>>), Run(45, <<Fld("company.address")>>),
     Brk(49),
     Hdg(54, <<>>), Para(57, <<>>), Para(66, <<>>) >>

CreateEmployer ==
  << Hdg(76, <<>>), Tbl(79, 7, 2) >> \o RowLoop(92, cells_data) \o << Brk(104) >>

\* the positions loop of section 3 is left open
CreatePositionsUnclosed ==
  << Hdg(109, <<>>), Para(112, <<>>), Para(114, <<>>),
     Para(117, <<Open("positions")>>),
     Hdg(119, <<Fld("position_name")>>),
     Tbl(122, 7, 2) >>
  \o RowLoop(135, position_data)
  \o << Para(147, <<>>), Brk(150) >>

CreatePositions ==
  << Hdg(109, <<>>), Para(112, <<>>), Para(114, <<>>),
     Para(117, <<Open("positions")>>),
     Hdg(119, <<Fld("position_name")>>),
     Tbl(122, 7, 2) >>
  \o RowLoop(135, position_data)
  \o << Para(147, <<>>), Para(148, <<Close("positions")>>), Brk(150) >>

\* the risks loop is opened before, and closed after, the positions loop
CreateRisksOutsidePositions ==
  << Hdg(155, <<>>), Para(158, <<>>), Para(169, <<>>),
     Para(172, <<Open("risks")>>),
     Hdg(174, <<Fld("position_name")>>),
     Para(177, <<Open("positions")>>),
     Tbl(179, 16, 2) >>
  \o RowLoop(201, risk_data)
  \o << Para(214, <<>>),
        Para(215, <<Close("positions")>>),
        Para(216, <<Close("risks")>>),
        Brk(218) >>

CreateRisks ==
  << Hdg(155, <<>>), Para(158, <<>>), Para(169, <<>>),
     Para(172, <<Open("positions")>>),
     Hdg(174, <<Fld("position_name")>>),
     Para(177, <<Open("risks")>>),
     Tbl(179, 16, 2) >>
  \o RowLoop(201, risk_data)
  \o << Para(214, <<>>),
        Para(215, <<Close("risks")>>),
        Para(216, <<Close("positions")>>),
        Brk(218) >>

CreateSummary ==
  << Hdg(223, <<>>), Para(226, <<>>), Tbl(229, 1, 5) >>
  \o CellLoop(233, 0, create_headers)
  \o << Para(242, <<>>),
        Para(243, <<Open("summary_risks")>>),
        Para(244, <<Fld("position_name"), Fld("hazard_name"), Fld("initial_ri"),
                    Fld("residual_r"), Fld("risk_level")>>),
        Para(247, <<Close("summary_risks")>>),
        Brk(249) >>

\* the PPE items loop is emitted inside a risks loop
CreatePpeUnderRisks ==
  << Hdg(254, <<>>), Para(257, <<>>),
     Para(260, <<Open("positions")>>),
     Para(261, <<Open("risks")>>),
     Hdg(263, <<Fld("position_name")>>),
     Para(266, <<Open("ppe_items")>>),
     Para(267, <<Fld("ppe_type"), Fld("ppe_standard"), Fld("quantity")>>),
     Para(269, <<Close("ppe_items")>>),
     Para(271, <<Close("risks")>>),
     Para(272, <<Close("positions")>>),
     Brk(274) >>

CreatePpe ==
  << Hdg(254, <<>>), Para(257, <<>>),
     Para(260, <<Open("positions")>>),
     Para(261, <<Open("has_ppe")>>),
     Hdg(263, <<Fld("position_name")>>),
     Para(266, <<Open("ppe_items")>>),
     Para(267, <<Fld("ppe_type"), Fld("ppe_standard"), Fld("quantity")>>),
     Para(269, <<Close("ppe_items")>>),
     Para(271, <<Close("has_ppe")>>),
     Para(272, <<Close("positions")>>),
     Brk(274) >>

CreateTraining ==
  << Hdg(279, <<>>), Para(282, <<>>),
     Para(285, <<Open("positions")>>),
     Para(286, <<Open("has_training")>>),
     Hdg(288, <<Fld("position_name")>>),
     Para(291, <<Open("training_requirements")>>),
     Para(292, <<Fld("training_type"), Fld("frequency_months"), Fld("duration_hours")>>),
     Para(294, <<Close("training_requirements")>>),
     Para(296, <<Close("has_training")>>),
     Para(297, <<Close("positions")>>),
     Brk(299) >>

CreateMedical ==
  << Hdg(304, <<>>), Para(307, <<>>),
     Para(310, <<Open("positions")>>),
     Para(311, <<Open("has_medical")>>),
     Hdg(313, <<Fld("position_name")>>),
     Para(316, <<Open("medical_exams")>>),
     Para(317, <<Fld("exam_type"), Fld("frequency_months"), Fld("exam_scope")>>),
     Para(319, <<Close("medical_exams")>>),
     Para(321, <<Close("has_medical")>>),
     Para(322, <<Close("positions")>>),
     Brk(324) >>

CreateSignatures ==
  << Hdg(329, <<>>), Para(332, <<Fld("company.name")>>),
     Para(342, <<>>), Para(343, <<>>),
     Hdg(348, <<>>), Para(351, <<>>), Para(354, <<>>),
     Tbl(356, 4, 2) >>
  \o RowLoop(366, sig_data)
  \o << Para(378, <<>>), Para(379, <<>>), Para(381, <<>>) >>

CreateSave ==
  << Save(391, create_output_path),
     Prn(393, "created"), Prn(394, "contains"), Prn(395, "paragraphs"),
     Prn(396, "tables"), Prn(397, "placeholders"), Prn(398, "font"),
     Prn(399, "sections"), Prn(400, "completed"),
     Ret(400) >>

ProgCreate ==
  CreateCover \o CreateEmployer \o CreatePositions \o CreateRisks
  \o CreateSummary \o CreatePpe \o CreateTraining \o CreateMedical
  \o CreateSignatures \o CreateSave

(***************************************************************************)
(* backend/scripts/generate-template.py                                    *)
(***************************************************************************)
\* add_header_text(paragraph, text): one run appended to the paragraph
add_header_text(ln, toks) == << Run(ln, toks) >>

\* add_paragraph_with_label(doc, label, placeholder): a new paragraph with a
\* bold label run and a placeholder run
add_paragraph_with_label(ln, toks) ==
  << Para(ln, <<>>), Run(ln, <<>>), Run(ln, toks) >>

gen_output_path == <<"..", "templates", "akt-procena-rizika-template.docx">>

GenSummaryLow == Thr("low", "le", 36, 36)
\* the medium range is written 36-70
GenSummaryMediumFrom36 == Thr("medium", "rng", 36, 70)
GenSummaryMedium == Thr("medium", "rng", 37, 70)
GenSummaryHigh == Thr("high", "gt", 70, 70)

GenTitle ==
  << Imp(10), Doc(89), Sty(92), Para(100, <<>>) >>
  \o add_header_text(101, <<>>)
  \o << Para(102, <<>>) >>
  \o add_paragraph_with_label(104, <<Fld("company.name")>>)
  \o add_paragraph_with_label(105, <<Fld("company.pib")>>)
  \o add_paragraph_with_label(106, <<Fld("company.address")>>)
  \o << Para(107, <<>>) >>
  \o add_paragraph_with_label(108, <<Fld("metadata.generatedDate")>>)
  \o add_paragraph_with_label(109, <<Fld("metadata.validityPeriod")>>)
  \o << Brk(111) >>

GenCompany ==
  << Para(116, <<>>) >>
  \o add_header_text(117, <<>>)
  \o << Para(118, <<>>) >>
  \o add_paragraph_with_label(120, <<Fld("company.name")>>)
  \o add_paragraph_with_label(121, <<Fld("company.pib")>>)
  \o add_paragraph_with_label(122, <<Fld("company.address")>>)
  \o add_paragraph_with_label(123, <<Fld("company.city")>>)
  \o add_paragraph_with_label(124, <<Fld("company.activityCode")>>)
  \o add_paragraph_with_label(125, <<Fld("company.activityDescription")>>)
  \o add_paragraph_with_label(126, <<Fld("company.employeeCount")>>)
  \o << Para(127, <<>>) >>
  \o add_paragraph_with_label(128, <<Fld("company.director")>>)
  \o add_paragraph_with_label(129, <<Fld("company.bzrResponsiblePerson")>>)
  \o << Brk(131) >>

GenPositions ==
  << Para(136, <<>>) >>
  \o add_header_text(137, <<>>)
  \o << Para(138, <<>>),
        Para(141, <<Open("positions")>>),
        Para(142, <<>>),
        Para(144, <<>>) >>
  \o add_header_text(144, <<Fld("positionName")>>)
  \o add_paragraph_with_label(145, <<Fld("department")>>)
  \o << Para(147, <<>>), Run(148, <<>>),
        Run(151, <<Fld("totalCount"), Fld("maleCount"), Fld("femaleCount")>>) >>
  \o add_paragraph_with_label(153, <<Fld("requiredEducation")>>)
  \o add_paragraph_with_label(154, <<Fld("requiredExperience")>>)
  \o << Para(156, <<>>), Para(157, <<Close("positions")>>), Brk(159) >>

GenRisks ==
  << Para(164, <<>>) >>
  \o add_header_text(165, <<>>)
  \o << Para(166, <<>>),
        Para(169, <<Open("positions")>>),
        Para(170, <<>>) >>
  \o add_header_text(170, <<Fld("positionName")>>)
  \o << Para(171, <<>>),
        Para(174, <<>>), Run(175, <<>>), Run(177, <<>>),
        Para(178, <<>>),
        Para(181, <<Open("risks")>>),
        Para(184, <<>>), Run(185, <<>>) >>
  \o add_paragraph_with_label(187, <<Fld("hazardName"), Fld("hazardCode")>>)
  \o add_paragraph_with_label(188, <<Fld("hazardCategory")>>)
  \o << Para(189, <<>>),
        Para(192, <<>>), Run(193, <<>>),
        Para(197, <<>>), Run(198, <<Fld("ei"), Fld("pi"), Fld("fi")>>),
        Para(200, <<>>), Run(201, <<>>),
        Run(203, <<Fld("ri"), Fld("initialRiskLevel")>>),
        Para(205, <<>>),
        Para(208, <<>>), Run(209, <<>>),
        Para(213, <<Fld("correctiveMeasures")>>),
        Para(214, <<>>),
        Para(217, <<>>), Run(218, <<>>),
        Para(222, <<>>), Run(223, <<Fld("e"), Fld("p"), Fld("f")>>),
        Para(225, <<>>), Run(226, <<>>),
        Run(228, <<Fld("r"), Fld("riskLevel")>>),
        Para(231, <<>>),
        Para(232, <<Open("isHighRisk")>>),
        Para(233, <<>>), Run(234, <<>>),
        Para(237, <<Close("isHighRisk")>>),
        Para(239, <<>>), Run(240, <<>>),
        Para(241, <<>>),
        Para(243, <<Close("risks")>>),
        Para(244, <<>>),
        Para(245, <<Close("positions")>>),
        Brk(247) >>

GenSummary ==
  << Para(252, <<>>) >>
  \o add_header_text(253, <<>>)
  \o << Para(254, <<>>), Para(256, <<>>), Run(257, <<>>), Para(258, <<>>) >>
  \o add_paragraph_with_label(260, <<Fld("summary.totalPositions")>>)
  \o add_paragraph_with_label(261, <<Fld("summary.totalRisks")>>)
  \o add_paragraph_with_label(262, <<Fld("summary.highRiskPositions")>>)
  \o << Para(263, <<>>),
        Para(265, <<>>), Run(266, <<>>),
        Para(269, <<>>),
        RunT(270, <<Fld("summary.lowRiskCount")>>, <<GenSummaryLow>>),
        Para(272, <<>>),
        RunT(273, <<Fld("summary.mediumRiskCount")>>, <<GenSummaryMedium>>),
        Para(275, <<>>),
        RunT(276, <<Fld("summary.highRiskCount")>>, <<GenSummaryHigh>>),
        Para(278, <<>>),
        Para(280, <<>>), Run(281, <<>>),
        Brk(287) >>

GenSignatures ==
  << Para(292, <<>>) >>
  \o add_header_text(293, <<>>)
  \o << Para(294, <<>>), Para(295, <<>>),
        Para(298, <<>>), Run(299, <<Fld("company.director")>>),
        Para(300, <<>>),
        Para(301, <<>>), Run(302, <<>>), Run(303, <<>>),
        Para(305, <<>>), Para(306, <<>>),
        Para(308, <<>>), Run(309, <<Fld("company.bzrResponsiblePerson")>>),
        Para(310, <<>>),
        Para(311, <<>>), Run(312, <<>>), Run(313, <<>>),
        Para(315, <<>>), Para(316, <<>>),
        Para(319, <<>>), Run(320, <<Fld("metadata.generatedDate")>>),
        Para(321, <<>>), Para(322, <<>>),
        Para(323, <<>>), Run(324, <<>>) >>

\* a paragraph is appended after the save
GenSaveThenAppend ==
  << Save(330, gen_output_path),
     Para(330, <<>>),
     Prn(331, "generated"), Prn(332, "paragraphs"), Prn(333, "ready"),
     Ret(336) >>

GenSave ==
  << Save(330, gen_output_path),
     Prn(331, "generated"), Prn(332, "paragraphs"), Prn(333, "ready"),
     Ret(336) >>

ProgGen ==
  GenTitle \o GenCompany \o GenPositions \o GenRisks \o GenSummary
  \o GenSignatures \o GenSave

(***************************************************************************)
(* backend/scripts/generate-docx-template.py                               *)
(***************************************************************************)
docx_headers == << <<>>, <<>>, <<>>, <<>>, <<>>, <<>>, <<>>, <<>>, <<>>, <<>>, <<>> >>

\* the residual score column repeats the initial score placeholder
docx_placeholders_repeated ==
  << <<Fld("hazardName")>>, <<Fld("ei")>>, <<Fld("pi")>>, <<Fld("fi")>>,
     <<Fld("ri")>>, <<Fld("correctiveMeasures")>>, <<Fld("e")>>, <<Fld("p")>>,
     <<Fld("f")>>, <<Fld("ri")>>, <<Fld("riskLevel")>> >>

docx_placeholders ==
  << <<Fld("hazardName")>>, <<Fld("ei")>>, <<Fld("pi")>>, <<Fld("fi")>>,
     <<Fld("ri")>>, <<Fld("correctiveMeasures")>>, <<Fld("e")>>, <<Fld("p")>>,
     <<Fld("f")>>, <<Fld("r")>>, <<Fld("riskLevel")>> >>

docx_output_path == <<"templates", "akt-procena-rizika-template.docx">>

DocxIntroThr ==
  << Thr("low", "le", 36, 36), Thr("medium", "gtle", 36, 70), Thr("high", "gt", 70, 70) >>

\* the note restates the medium boundary as 72
DocxNoteThrDrifted ==
  << Thr("low", "le", 36, 36), Thr("medium", "gtle", 36, 72), Thr("high", "gt", 70, 70) >>

DocxNoteThr ==
  << Thr("low", "le", 36, 36), Thr("medium", "gtle", 36, 70), Thr("high", "gt", 70, 70) >>

DocxSummaryLow == Thr("low", "le", 36, 36)
DocxSummaryMedium == Thr("medium", "gtle", 36, 70)
DocxSummaryHigh == Thr("high", "gt", 70, 70)

DocxCover ==
  << Imp(9), Try(374), Doc(23), Sty(26),
     Para(36, <<>>), Run(38, <<>>),
     Para(42, <<>>),
     Para(45, <<>>), Run(47, <<>>),
     Para(51, <<>>),
     Para(54, <<>>), Run(56, <<Fld("company.name")>>),
     Run(59, <<Fld("company.address"), Fld("company.city")>>),
     Run(60, <<Fld("company.pib")>>),
     Para(62, <<>>), Para(63, <<>>),
     Para(66, <<>>), Run(68, <<Fld("metadata.generatedDate")>>),
     Run(69, <<Fld("metadata.validUntil")>>),
     Brk(72) >>

DocxIntro ==
  << Hdg(78, <<>>), Para(81, <<>>), Para(85, <<>>), Para(89, <<>>),
     Para(94, <<>>),
     Para(96, <<Fld("company.name")>>),
     Para(103, <<>>), Para(105, <<>>),
     Para(109, <<>>), Run(111, <<>>),
     Para(115, <<>>),
     ParaT(117, <<>>, DocxIntroThr),
     Brk(124) >>

DocxCompany ==
  << Hdg(130, <<>>),
     Para(133, <<Fld("company.name")>>),
     Para(134, <<Fld("company.pib")>>),
     Para(135, <<Fld("company.maticniBroj")>>),
     Para(136, <<Fld("company.address"), Fld("company.city")>>),
     Para(137, <<Fld("company.activityCode")>>),
     Para(138, <<Fld("company.activityDescription")>>),
     Para(139, <<Fld("company.director")>>),
     Para(140, <<Fld("company.bzrResponsiblePerson")>>),
     Para(141, <<Fld("company.employeeCount")>>),
     Brk(143),
     Hdg(149, <<>>),
     Para(152, <<Fld("company.name"), Fld("summary.totalPositions"),
                 Fld("summary.totalPositions")>>),
     Brk(157) >>

DocxPositions ==
  << Hdg(163, <<>>),
     Para(167, <<Open("positions")>>),
     Para(169, <<>>),
     Para(170, <<>>), Run(171, <<Fld("@index"), Fld("positionName")>>),
     Para(175, <<Fld("department")>>),
     Para(176, <<Fld("totalCount"), Fld("maleCount"), Fld("femaleCount")>>),
     Para(177, <<Fld("requiredEducation")>>),
     Para(178, <<Fld("requiredExperience")>>),
     Para(179, <<Fld("workDescription")>>),
     Para(181, <<Close("positions")>>),
     Brk(183) >>

DocxRisks ==
  << Hdg(189, <<>>),
     Para(193, <<Open("positions")>>),
     Para(195, <<>>),
     Para(196, <<>>), Run(197, <<Fld("@index"), Fld("positionName")>>),
     Para(201, <<>>),
     Tbl(204, 2, 11) >>
  \o CellLoop(210, 0, docx_headers)
  \o << Para(223, <<Open("risks")>>) >>
  \o CellLoop(240, 1, docx_placeholders)
  \o << Para(249, <<Close("risks")>>),
        Para(251, <<>>),
        Para(252, <<>>), Run(253, <<>>), RunT(255, <<>>, DocxNoteThr),
        Para(257, <<Close("positions")>>),
        Brk(259) >>

DocxSummary ==
  << Hdg(265, <<>>),
     Para(268, <<Fld("summary.totalPositions")>>),
     Para(269, <<Fld("summary.totalRisks")>>),
     Para(271, <<>>),
     Para(273, <<>>), Run(274, <<>>),
     ParaT(277, <<Fld("summary.lowRiskCount")>>, <<DocxSummaryLow>>),
     ParaT(278, <<Fld("summary.mediumRiskCount")>>, <<DocxSummaryMedium>>),
     ParaT(279, <<Fld("summary.highRiskCount")>>, <<DocxSummaryHigh>>),
     Para(281, <<>>),
     Para(284, <<Open("summary.highRiskPositions")>>),
     Para(285, <<>>), Run(286, <<Fld("summary.highRiskPositions")>>),
     Para(289, <<Close("summary.highRiskPositions")>>),
     Brk(291) >>

DocxAppendices ==
  << Hdg(297, <<>>), Para(300, <<>>), Brk(307) >>

DocxSignatures ==
  << Hdg(313, <<>>),
     Para(316, <<Fld("metadata.generatedDate")>>),
     Para(320, <<Fld("metadata.validityPeriod")>>),
     Para(324, <<>>), Para(325, <<>>), Para(326, <<>>),
     Para(329, <<>>),
     Para(332, <<Fld("company.director")>>),
     Para(337, <<>>),
     Para(340, <<>>), Para(341, <<>>),
     Para(344, <<>>),
     Para(347, <<Fld("company.bzrResponsiblePerson")>>),
     Para(352, <<>>),
     Para(356, <<>>), Para(357, <<>>),
     Para(358, <<>>), Run(360, <<>>) >>

DocxSave ==
  << Save(366, docx_output_path),
     Prn(367, "ok"), Prn(368, "info_sections"), Prn(369, "info_ready"),
     Prn(370, "blank"), Prn(371, "next"),
     Ret(375) >>

\* an except clause that saves whatever has been built so far
DocxHandlerSaving ==
  << Prn(377, "error"), Save(366, docx_output_path), Prn(378, "blank"),
     Prn(379, "make_sure"), Prn(380, "pip_install"), Ret(380) >>

\* except Exception as e: ...
DocxHandler ==
  << Prn(377, "error"), Prn(378, "blank"), Prn(379, "make_sure"),
     Prn(380, "pip_install"), Ret(380) >>

DocxMain ==
  DocxCover \o DocxIntro \o DocxCompany \o DocxPositions \o DocxRisks
  \o DocxSummary \o DocxAppendices \o DocxSignatures \o DocxSave

ProgDocx == DocxMain \o DocxHandler

(***************************************************************************)
(* backend/merge_all_results.py                                            *)
(***************************************************************************)
merge_input_path == <<"sistematizacija-knowledge-base-backup.json">>

\* positions 26-45 counted as 45 - 26
claude_positions_count_miscounted == 18 + 19 + 5 + 15 + 21

claude_positions_count == 18 + 20 + 5 + 15 + 21

\* the summands of claude_positions_count, one per agent
agent_counts == <<18, 20, 5, 15, 21>>

\* "Agent k (chunk c): positions lo-hi = count positions"
AgentRange(chunk, lo, hi, count) ==
  [chunk |-> chunk, lo |-> lo, hi |-> hi, count |-> count]

agent_ranges ==
  << AgentRange(1, 1, 18, 18),
     AgentRange(3, 26, 45, 20),
     AgentRange(6, 61, 65, 5),
     AgentRange(7, 79, 93, 15),
     AgentRange(8, 116, 136, 21) >>

\* "... od 137": the number of positions of the systematization
total_positions == 137

\* the script carries out its step 5 and writes the merged knowledge base
ProgMergeSaving ==
  << Imp(6),
     OpenF(9, merge_input_path, "r"), Load(10), GetKey(11, "positions"),
     Prn(13, "deepseek"),
     Asg(16, "chunk_2_4_5_positions"),
     Asg(26, "claude_positions_count"),
     Asg(27, "total_estimated"),
     Prn(29, "claude"), Prn(30, "total"),
     Prn(32, "todo"), Prn(33, "todo1"), Prn(34, "todo2"), Prn(35, "todo3"),
     Prn(36, "todo4"), Prn(37, "todo5"),
     OpenF(37, <<"sistematizacija-knowledge-base.json">>, "w"),
     Ret(37) >>

ProgMerge ==
  << Imp(6),
     OpenF(9, merge_input_path, "r"), Load(10), GetKey(11, "positions"),
     Prn(13, "deepseek"),
     Asg(16, "chunk_2_4_5_positions"),
     Asg(26, "claude_positions_count"),
     Asg(27, "total_estimated"),
     Prn(29, "claude"), Prn(30, "total"),
     Prn(32, "todo"), Prn(33, "todo1"), Prn(34, "todo2"), Prn(35, "todo3"),
     Prn(36, "todo4"), Prn(37, "todo5"),
     Ret(37) >>

(***************************************************************************)
(* create_risk_table(doc) of generate-template.py.  generate_template()    *)
(* never calls it; it is run here on a fresh Document().                   *)
(***************************************************************************)
risk_table_headers ==
  << <<>>, <<>>, <<>>, <<>>, <<>>, <<>>, <<>>, <<>>, <<>>, <<>>, <<>>, <<>>, <<>> >>

risk_table_placeholders ==
  << <<Fld("rowNumber")>>, <<Fld("hazardName")>>, <<Fld("hazardCategory")>>,
     <<Fld("ei")>>, <<Fld("pi")>>, <<Fld("fi")>>, <<Fld("ri")>>,
     <<Fld("correctiveMeasures")>>,
     <<Fld("e")>>, <<Fld("p")>>, <<Fld("f")>>, <<Fld("r")>>,
     <<Fld("riskLevel")>> >>

create_risk_table ==
  << Para(44, <<>>), Run(45, <<>>), Para(48, <<>>), Tbl(51, 1, 13) >>
  \o CellLoop(58, 0, risk_table_headers)
  \o << AddRowS(67) >>
  \o CellLoop(85, 1, risk_table_placeholders)

ProgRiskTable == << Imp(10), Doc(88) >> \o create_risk_table \o << Ret(85) >>

Scripts == {"create", "gen", "docx", "merge"}
Generators == {"create", "gen", "docx"}

Prog(s) ==
  CASE s = "create" -> ProgCreate
    [] s = "gen" -> ProgGen
    [] s = "docx" -> ProgDocx
    [] s = "merge" -> ProgMerge
    [] s = "risk_table" -> ProgRiskTable

\* first statement of the except clause; 0 when the script has none
HandlerPc(s) == IF s = "docx" THEN Len(DocxMain) + 1 ELSE 0

\* the working directory each script is written to be run from
IntendedCwd(s) ==
  CASE s = "create" -> <<>>
    [] s = "gen" -> <<"backend", "scripts">>
    [] s = "docx" -> <<"backend">>
    [] s = "merge" -> <<"backend">>
    [] s = "risk_table" -> <<"backend", "scripts">>

(***************************************************************************)
(* State                                                                   *)
(***************************************************************************)
VARIABLES
  cur,      \* the script of the current (or last) run, "none" before any run
  pc,       \* index in Prog(cur) of the next statement
  status,   \* "idle", "running", "done" (exit 0) or "uncaught" (traceback)
  inTry,    \* control is inside the try block
  caught,   \* the except clause was entered in this run
  raisedAt, \* index of the statement that last raised in this run, 0 if none
  body,     \* block elements of the document body, in document order
  tbl,      \* position in body of the table the script last created
  console,  \* lines printed by this run
  saved,    \* doc.save calls of this run: path and the body written
  opened,   \* open() calls of this run: path and mode
  fs,       \* files on disk written by the scripts
  writes,   \* every (script, file) pair written in any run
  runs,     \* number of runs started
  cwd,      \* working directory of this run
  input,    \* state of the merge script's input file for this run
  mem,      \* module-level variables of merge_all_results.py
  risk      \* one assessed risk: E, P, F, score and levels

ctl == <<cur, pc, status, inTry, caught, raisedAt>>
docv == <<body, tbl>>
iov == <<console, saved, opened, fs, writes>>
envv == <<runs, cwd, input, mem>>
vars == <<cur, pc, status, inTry, caught, raisedAt, body, tbl, console, saved, opened,
          fs, writes, runs, cwd, input, mem, risk>>

PositionNumbers == {19, 20}
PositionLists == UNION {[1..n -> PositionNumbers] : n \in 0..MaxPositions}

InputFile(exists, valid, haskey, positions) ==
  [exists |-> exists, valid |-> valid, haskey |-> haskey, positions |-> positions]

NoInput == InputFile(FALSE, FALSE, FALSE, <<>>)

MergeInputs ==
  {NoInput, InputFile(TRUE, FALSE, FALSE, <<>>), InputFile(TRUE, TRUE, FALSE, <<>>)}
  \cup {InputFile(TRUE, TRUE, TRUE, ps) : ps \in PositionLists}

NoMem ==
  [loaded |-> FALSE, deepseek_data |-> NoInput, deepseek_positions |-> <<>>,
   chunk_2_4_5_positions |-> 0, claude_positions_count |-> 0,
   total_estimated |-> 0]

NoRisk == [e |-> 0, p |-> 0, f |-> 0, r |-> 0, docx |-> {}, gen |-> {}]

Elem(kind, toks, thr, cells) ==
  [kind |-> kind, toks |-> toks, thr |-> thr, cells |-> cells]

\* os.path resolution of a relative path against the working directory
RECURSIVE Normalize(_, _)
Normalize(acc, rel) ==
  IF rel = <<>> THEN acc
  ELSE IF rel[1] = ".."
       THEN Normalize(IF acc = <<>> THEN acc ELSE SubSeq(acc, 1, Len(acc) - 1),
                      Tail(rel))
       ELSE Normalize(Append(acc, rel[1]), Tail(rel))

Resolve(dir, rel) == Normalize(dir, rel)

Cur == Prog(cur)[pc]

At(k) == status = "running" /\ pc <= Len(Prog(cur)) /\ Cur.op = k

\* every statement wrapped in "except: pass": the exception is swallowed and
\* the script goes on with the next statement
ThrowSwallowed ==
  /\ raisedAt' = pc
  /\ pc' = pc + 1
  /\ UNCHANGED <<cur, status, inTry, caught>>

\* an exception leaves the statement: to the except clause when inside the
\* try block, otherwise out of the script
Throw ==
  /\ raisedAt' = pc
  /\ IF inTry
     THEN /\ pc' = HandlerPc(cur)
          /\ inTry' = FALSE
          /\ caught' = TRUE
          /\ UNCHANGED <<cur, status>>
     ELSE /\ status' = "uncaught"
          /\ UNCHANGED <<cur, pc, inTry, caught>>

Advance == pc' = pc + 1 /\ UNCHANGED <<cur, status, inTry, caught, raisedAt>>

Init ==
  /\ cur = "none"
  /\ pc = 0
  /\ status = "idle"
  /\ inTry = FALSE
  /\ caught = FALSE
  /\ raisedAt = 0
  /\ body = <<>>
  /\ tbl = 0
  /\ console = <<>>
  /\ saved = <<>>
  /\ opened = <<>>
  /\ fs = {}
  /\ writes = {}
  /\ runs = 0
  /\ cwd = <<>>
  /\ input = NoInput
  /\ mem = NoMem
  /\ risk = NoRisk

(***************************************************************************)
(* Actions                                                                 *)
(***************************************************************************)
\* python <script>, from the script's working directory
Start(s) ==
  /\ status # "running"
  /\ runs < MaxRuns
  /\ cur' = s
  /\ pc' = 1
  /\ status' = "running"
  /\ inTry' = FALSE
  /\ caught' = FALSE
  /\ raisedAt' = 0
  /\ body' = <<>>
  /\ tbl' = 0
  /\ console' = <<>>
  /\ saved' = <<>>
  /\ opened' = <<>>
  /\ runs' = runs + 1
  /\ cwd' = IntendedCwd(s)
  /\ \E f \in (IF s = "merge" THEN MergeInputs ELSE {NoInput}) : input' = f
  /\ mem' = NoMem
  /\ UNCHANGED <<fs, writes, risk>>

\* a statement raises (library missing, I/O error, encoding error, ...)
Raise ==
  /\ status = "running"
  /\ Cur.op \in {"import", "document", "style", "para", "run", "heading",
                 "break", "table", "addrow", "setrow", "setcell", "save", "print",
                 "open", "load", "getkey"}
  /\ Throw
  /\ UNCHANGED <<docv, iov, envv, risk>>

Import ==
  /\ At("import")
  /\ Advance
  /\ UNCHANGED <<docv, iov, envv, risk>>

EnterTry ==
  /\ At("try")
  /\ pc' = pc + 1
  /\ inTry' = TRUE
  /\ UNCHANGED <<cur, status, caught, raisedAt, docv, iov, envv, risk>>

NewDocument ==
  /\ At("document")
  /\ body' = <<>>
  /\ tbl' = 0
  /\ Advance
  /\ UNCHANGED <<iov, envv, risk>>

SetStyle ==
  /\ At("style")
  /\ Advance
  /\ UNCHANGED <<docv, iov, envv, risk>>

AddParagraph ==
  /\ At("para")
  /\ body' = Append(body, Elem("para", Cur.toks, Cur.thr, <<>>))
  /\ Advance
  /\ UNCHANGED <<tbl, iov, envv, risk>>

AddRun ==
  /\ At("run")
  /\ body # <<>>
  /\ body' = [body EXCEPT ![Len(body)].toks = @ \o Cur.toks,
                          ![Len(body)].thr = @ \o Cur.thr]
  /\ Advance
  /\ UNCHANGED <<tbl, iov, envv, risk>>

AddHeading ==
  /\ At("heading")
  /\ body' = Append(body, Elem("heading", Cur.toks, Cur.thr, <<>>))
  /\ Advance
  /\ UNCHANGED <<tbl, iov, envv, risk>>

AddPageBreak ==
  /\ At("break")
  /\ body' = Append(body, Elem("break", <<>>, <<>>, <<>>))
  /\ Advance
  /\ UNCHANGED <<tbl, iov, envv, risk>>

AddTable ==
  /\ At("table")
  /\ body' = Append(body,
       Elem("table", <<>>, <<>>,
            [i \in 1..Cur.rows |-> [j \in 1..Cur.cols |-> <<>>]]))
  /\ tbl' = Len(body) + 1
  /\ Advance
  /\ UNCHANGED <<iov, envv, risk>>

\* row = table.add_row(): a new last row with one empty cell per column
AddRow ==
  /\ At("addrow")
  /\ tbl # 0
  /\ body' = [body EXCEPT ![tbl].cells =
                Append(@, [j \in 1..Len(@[1]) |-> <<>>])]
  /\ Advance
  /\ UNCHANGED <<tbl, iov, envv, risk>>

CellExists(i, j) ==
  /\ tbl # 0
  /\ i + 1 <= Len(body[tbl].cells)
  /\ j + 1 <= Len(body[tbl].cells[i + 1])

\* row = table.rows[i]; row.cells[0].text = label; row.cells[1].text = value
SetRowCells ==
  /\ At("setrow")
  /\ IF CellExists(Cur.r, 0) /\ CellExists(Cur.r, 1)
     THEN /\ body' = [body EXCEPT ![tbl].cells[Cur.r + 1] =
                        [@ EXCEPT ![1] = Cur.cells[1], ![2] = Cur.cells[2]]]
          /\ Advance
     ELSE /\ Throw
          /\ UNCHANGED body
  /\ UNCHANGED <<tbl, iov, envv, risk>>

\* table.rows[r].cells[i].text = text
SetCellText ==
  /\ At("setcell")
  /\ IF CellExists(Cur.r, Cur.c)
     THEN /\ body' = [body EXCEPT ![tbl].cells[Cur.r + 1][Cur.c + 1] = Cur.toks]
          /\ Advance
     ELSE /\ Throw
          /\ UNCHANGED body
  /\ UNCHANGED <<tbl, iov, envv, risk>>

\* doc.save(output_path)
SaveDocument ==
  /\ At("save")
  /\ LET file == Resolve(cwd, Cur.path) IN
       /\ fs' = {x \in fs : x.path # file}
                  \cup {[path |-> file, writer |-> cur, body |-> body]}
       /\ saved' = Append(saved, [path |-> file, body |-> body])
       /\ writes' = writes \cup {[script |-> cur, path |-> file]}
  /\ Advance
  /\ UNCHANGED <<docv, console, opened, envv, risk>>

IsParagraph(x) == x.kind \in {"para", "heading", "break"}

PrintVal(tag) ==
  CASE tag = "deepseek" -> Len(mem.deepseek_positions)
    [] tag = "claude" -> mem.claude_positions_count
    [] tag = "total" -> mem.total_estimated
    [] tag = "paragraphs" -> Cardinality({i \in 1..Len(body) : IsParagraph(body[i])})
    [] tag = "tables" -> Cardinality({i \in 1..Len(body) : body[i].kind = "table"})
    [] OTHER -> 0

PrintLine ==
  /\ At("print")
  /\ console' = Append(console, [tag |-> Cur.tag, val |-> PrintVal(Cur.tag)])
  /\ Advance
  /\ UNCHANGED <<docv, saved, opened, fs, writes, envv, risk>>

\* with open(path, mode) as f
OpenFile ==
  /\ At("open")
  /\ LET file == Resolve(cwd, Cur.path) IN
       IF Cur.mode = "r"
       THEN IF input.exists
            THEN /\ opened' = Append(opened, [path |-> Cur.path, mode |-> Cur.mode])
                 /\ Advance
                 /\ UNCHANGED <<fs, writes>>
            ELSE /\ Throw
                 /\ UNCHANGED <<opened, fs, writes>>
       ELSE /\ opened' = Append(opened, [path |-> Cur.path, mode |-> Cur.mode])
            /\ fs' = {x \in fs : x.path # file}
                       \cup {[path |-> file, writer |-> cur, body |-> <<>>]}
            /\ writes' = writes \cup {[script |-> cur, path |-> file]}
            /\ Advance
  /\ UNCHANGED <<docv, console, saved, envv, risk>>

\* deepseek_data = json.load(f)
LoadJson ==
  /\ At("load")
  /\ IF input.valid
     THEN /\ mem' = [mem EXCEPT !.loaded = TRUE, !.deepseek_data = input]
          /\ Advance
     ELSE /\ Throw
          /\ UNCHANGED mem
  /\ UNCHANGED <<docv, iov, runs, cwd, input, risk>>

\* the list with later duplicates of a record dropped
Deduplicated(ps) ==
  LET keep == SelectSeq([i \in 1..Len(ps) |-> i],
                        LAMBDA i : \A j \in 1..(i - 1) : ps[j] # ps[i])
  IN [k \in 1..Len(keep) |-> ps[keep[k]]]

\* a loader that merges duplicate records
GetPositionsMerging ==
  /\ At("getkey")
  /\ IF mem.deepseek_data.haskey
     THEN /\ mem' = [mem EXCEPT !.deepseek_positions =
                       Deduplicated(mem.deepseek_data.positions)]
          /\ Advance
     ELSE /\ Throw
          /\ UNCHANGED mem
  /\ UNCHANGED <<docv, iov, runs, cwd, input, risk>>

\* deepseek_positions = deepseek_data['positions']
GetPositions ==
  /\ At("getkey")
  /\ IF mem.deepseek_data.haskey
     THEN /\ mem' = [mem EXCEPT !.deepseek_positions = mem.deepseek_data.positions]
          /\ Advance
     ELSE /\ Throw
          /\ UNCHANGED mem
  /\ UNCHANGED <<docv, iov, runs, cwd, input, risk>>

Assign ==
  /\ At("assign")
  /\ mem' =
       CASE Cur.tag = "chunk_2_4_5_positions" ->
              [mem EXCEPT !.chunk_2_4_5_positions = Len(mem.deepseek_positions)]
         [] Cur.tag = "claude_positions_count" ->
              [mem EXCEPT !.claude_positions_count = claude_positions_count]
         [] Cur.tag = "total_estimated" ->
              [mem EXCEPT !.total_estimated =
                 mem.chunk_2_4_5_positions + mem.claude_positions_count]
  /\ Advance
  /\ UNCHANGED <<docv, iov, runs, cwd, input, risk>>

\* end of the script: the interpreter exits with status 0
Exit ==
  /\ At("exit")
  /\ status' = "done"
  /\ inTry' = FALSE
  /\ UNCHANGED <<cur, pc, caught, raisedAt, docv, iov, envv, risk>>

Next ==
  \/ \E s \in Scripts : Start(s)
  \/ Raise
  \/ Import
  \/ EnterTry
  \/ NewDocument
  \/ SetStyle
  \/ AddParagraph
  \/ AddRun
  \/ AddHeading
  \/ AddPageBreak
  \/ AddTable
  \/ SetRowCells
  \/ SetCellText
  \/ SaveDocument
  \/ PrintLine
  \/ OpenFile
  \/ LoadJson
  \/ GetPositions
  \/ Assign
  \/ Exit

Spec == Init /\ [][Next]_vars

\* the scripts, and create_risk_table(doc) called on its own
NextTables ==
  \/ Next
  \/ Start("risk_table")
  \/ AddRow

SpecTables == Init /\ [][NextTables]_vars

(***************************************************************************)
(* The risk score and its levels, as the templates state them              *)
(***************************************************************************)
\* E, P and F each range over 1-6
MaxFactor == 6
MinScore == 1
MaxScore == MaxFactor * MaxFactor * MaxFactor

\* R = E x P x F
Score(e, p, f) == e * p * f

\* the scores a risk-level statement covers, as an inclusive interval
Interval(t) ==
  CASE t.rel = "le" -> [lo |-> MinScore, hi |-> t.a]
    [] t.rel = "gtle" -> [lo |-> t.a + 1, hi |-> t.b]
    [] t.rel = "rng" -> [lo |-> t.a, hi |-> t.b]
    [] t.rel = "gt" -> [lo |-> t.a + 1, hi |-> MaxScore]

\* the levels a list of statements assigns to score x
LevelsOf(notation, x) ==
  {notation[i].level :
     i \in {j \in 1..Len(notation) :
              Interval(notation[j]).lo <= x /\ x <= Interval(notation[j]).hi}}

DocxNotation == DocxIntroThr
GenNotation == <<GenSummaryLow, GenSummaryMedium, GenSummaryHigh>>

Assessed(e, p, f, r) ==
  [e |-> e, p |-> p, f |-> f, r |-> r,
   docx |-> LevelsOf(DocxNotation, r), gen |-> LevelsOf(GenNotation, r)]

\* a risk is scored from its three factors and classified
AssessRisk ==
  /\ \E e \in 1..MaxFactor, p \in 1..MaxFactor, f \in 1..MaxFactor :
       risk' = Assessed(e, p, f, Score(e, p, f))
  /\ UNCHANGED <<ctl, docv, iov, envv>>

\* a score is classified
ClassifyScore ==
  /\ \E x \in MinScore..MaxScore : risk' = Assessed(0, 0, 0, x)
  /\ UNCHANGED <<ctl, docv, iov, envv>>

NextScore == AssessRisk \/ ClassifyScore

SpecScore == Init /\ [][NextScore]_vars

(***************************************************************************)
(* Reading a document as a Mustache template                               *)
(***************************************************************************)
RECURSIVE ConcatFrom(_, _)
ConcatFrom(ss, i) ==
  IF i > Len(ss) THEN <<>> ELSE ss[i] \o ConcatFrom(ss, i + 1)

\* tokens of a table, read row by row, cell by cell
RECURSIVE TableTokens(_, _)
TableTokens(cells, i) ==
  IF i > Len(cells) THEN <<>>
  ELSE ConcatFrom(cells[i], 1) \o TableTokens(cells, i + 1)

\* tokens of one block element
ElemTokens(x) ==
  IF x.kind = "table" THEN TableTokens(x.cells, 1) ELSE x.toks

\* all tokens of a body in document order
RECURSIVE StreamFrom(_, _)
StreamFrom(b, i) ==
  IF i > Len(b) THEN <<>> ELSE ElemTokens(b[i]) \o StreamFrom(b, i + 1)

Stream(b) == StreamFrom(b, 1)

IsMarker(t) == t.t \in {"open", "close"}

\* the loop markers of a body in document order
Markers(b) == SelectSeq(Stream(b), IsMarker)

Unbalanced == <<"!">>

\* the stack of open loops after one more marker
Push(st, t) ==
  IF st = Unbalanced THEN Unbalanced
  ELSE IF t.t = "open" THEN Append(st, t.name)
  ELSE IF st # <<>> /\ st[Len(st)] = t.name
       THEN SubSeq(st, 1, Len(st) - 1)
       ELSE Unbalanced

\* stacks[k + 1] is the stack of open loops after the first k markers of m
RECURSIVE StacksFrom(_, _, _)
StacksFrom(m, i, acc) ==
  IF i > Len(m) THEN acc
  ELSE StacksFrom(m, i + 1, Append(acc, Push(acc[Len(acc)], m[i])))

Stacks(m) == StacksFrom(m, 1, << <<>> >>)

OpenLoops(b) == LET st == Stacks(Markers(b)) IN st[Len(st)]

Occurs(st, n) == Cardinality({i \in 1..Len(st) : st[i] = n})

SubItemLoops == {"ppe_items", "training_requirements", "medical_exams"}

SectionOf(n) ==
  CASE n = "ppe_items" -> "has_ppe"
    [] n = "training_requirements" -> "has_training"
    [] n = "medical_exams" -> "has_medical"

GeneratedFiles == {x \in fs : x.writer \in Generators}

(***************************************************************************)
(* Claims                                                                  *)
(***************************************************************************)
\* C1: in the paragraphs emitted by each generator the loop markers are
\* balanced: every closer closes the most recently opened, still open loop of
\* the same name, no closer comes without its opener, and no loop is open in
\* a document that is saved.
C1_Balanced ==
  /\ OpenLoops(body) # Unbalanced
  /\ \A i \in 1..Len(saved) : OpenLoops(saved[i].body) = <<>>
  /\ \A x \in GeneratedFiles : OpenLoops(x.body) = <<>>

C1_Witness ==
  /\ cur \in Generators
  /\ status = "done"
  /\ Len(saved) = 1
  /\ Len(Markers(saved[1].body)) >= 6
  /\ Cardinality(GeneratedFiles) = 2

\* C2 as stated: a sub-item loop is opened only while a risks loop is open,
\* and a risks loop only while a positions loop is open.
C2_SubItemsUnderRisks ==
  LET m == Markers(body)
      st == Stacks(m)
  IN
  \A k \in 1..Len(m) :
    /\ (m[k].t = "open" /\ m[k].name \in SubItemLoops)
         => Occurs(st[k], "risks") > 0
    /\ (m[k].t = "open" /\ m[k].name = "risks")
         => Occurs(st[k], "positions") > 0

\* C2 amended: a sub-item loop is opened exactly inside the has_ppe /
\* has_training / has_medical section of one open positions loop, with no
\* risks loop open; a risks loop is opened directly inside one open positions
\* loop.
C2_SubItemsUnderPositions ==
  LET m == Markers(body)
      st == Stacks(m)
  IN
  \A k \in 1..Len(m) :
    /\ (m[k].t = "open" /\ m[k].name \in SubItemLoops)
         => st[k] = <<"positions", SectionOf(m[k].name)>>
    /\ (m[k].t = "open" /\ m[k].name = "risks")
         => st[k] = <<"positions">>

C2_Witness ==
  /\ cur = "create"
  /\ status = "running"
  /\ OpenLoops(body) = <<"positions", "has_ppe", "ppe_items">>

\* C4: a risks loop is opened only while exactly one positions loop is open
\* and is closed before that positions loop is closed; no risks loop is at
\* top level or inside two nested positions loops.
C4_RisksInOnePosition ==
  LET m == Markers(body)
      st == Stacks(m)
  IN
  /\ st[Len(st)] # Unbalanced
  /\ \A k \in 1..Len(m) :
       LET before == st[k] IN
       /\ (m[k].t = "open" /\ m[k].name = "risks")
            => Occurs(before, "positions") = 1 /\ Occurs(before, "risks") = 0
       /\ (m[k].t = "close" /\ m[k].name = "positions")
            => Occurs(before, "risks") = 0
       /\ (m[k].t = "open" /\ m[k].name = "positions")
            => Occurs(before, "positions") = 0

C4_Witness ==
  /\ cur \in Generators
  /\ status = "running"
  /\ Occurs(OpenLoops(body), "risks") = 1
  /\ Occurs(OpenLoops(body), "positions") = 1

\* scope[i] is the position in s of the opener of the innermost loop open at
\* token i, 0 at top level
Top(st) == IF st = <<>> THEN 0 ELSE st[Len(st)]

\* the positions in s of its loop markers
MarkerPositions(s) ==
  SelectSeq([i \in 1..Len(s) |-> i], LAMBDA i : IsMarker(s[i]))

\* acc[k + 1] is the stack of the positions of the openers of the loops open
\* after the first k markers
RECURSIVE OpenersFrom(_, _, _, _)
OpenersFrom(s, idx, k, acc) ==
  IF k > Len(idx) THEN acc
  ELSE LET st == acc[Len(acc)] IN
       OpenersFrom(s, idx, k + 1,
         Append(acc,
           IF s[idx[k]].t = "open" THEN Append(st, idx[k])
           ELSE IF st = <<>> THEN st ELSE SubSeq(st, 1, Len(st) - 1)))

\* Scopes(s)[i] is the position in s of the opener of the innermost loop open
\* at token i, 0 at top level
Scopes(s) ==
  LET idx == MarkerPositions(s)
      openers == OpenersFrom(s, idx, 1, << <<>> >>)
  IN [i \in 1..Len(s) |->
        Top(openers[Cardinality({k \in 1..Len(idx) : idx[k] < i}) + 1])]

\* number of times field n occurs in scope c
FieldCount(s, sc, n, c) ==
  Cardinality({i \in 1..Len(s) : s[i] = Fld(n) /\ sc[i] = c})

\* no field placeholder occurs twice in one scope among the scopes cs
NoRepeat(s, sc, top) ==
  \A i \in 1..Len(s) : \A j \in (i + 1)..Len(s) :
    (s[i].t = "field" /\ s[j] = s[i] /\ sc[i] = sc[j]) => (sc[i] = 0 /\ top)

FinishedTemplate ==
  cur \in Generators /\ status = "done" /\ saved # <<>>

\* C3 as stated: every field placeholder occurs once in its scope: a
\* top-level field once in the document, a position field once per positions
\* loop body, a risk field once per risks loop body; none is repeated within
\* one scope.
C3_OncePerScope ==
  FinishedTemplate =>
    LET s == Stream(saved[1].body) IN NoRepeat(s, Scopes(s), FALSE)

\* C3 amended: within one loop body no field placeholder is repeated; a
\* top-level field may be repeated and occurs at most four times in the
\* document.
C3_OncePerLoopBody ==
  FinishedTemplate =>
    LET s == Stream(saved[1].body)
        sc == Scopes(s)
    IN /\ NoRepeat(s, sc, TRUE)
       /\ \A i \in 1..Len(s) :
            (s[i].t = "field" /\ sc[i] = 0)
              => Cardinality({j \in 1..Len(s) : s[j] = s[i] /\ sc[j] = 0})
                   <= 4
       /\ FieldCount(s, sc, "company.name", 0) =
            CASE cur = "docx" -> 4
              [] cur = "create" -> 3
              [] cur = "gen" -> 2

C3_Witness ==
  /\ FinishedTemplate
  /\ cur = "docx"
  /\ LET s == Stream(saved[1].body) IN
       /\ FieldCount(s, Scopes(s), "company.name", 0) = 4
       /\ \E i \in 1..Len(s) : s[i] = Fld("riskLevel") /\ Scopes(s)[i] # 0

\* the risk-level statements of a body in document order
RECURSIVE ThrFrom(_, _)
ThrFrom(b, i) ==
  IF i > Len(b) THEN <<>> ELSE b[i].thr \o ThrFrom(b, i + 1)

Statements(b) == ThrFrom(b, 1)

\* the documented thresholds: low <= 36, medium 37-70, high > 70
DocumentedInterval(level) ==
  CASE level = "low" -> [lo |-> MinScore, hi |-> 36]
    [] level = "medium" -> [lo |-> 37, hi |-> 70]
    [] level = "high" -> [lo |-> 71, hi |-> MaxScore]

Consistent(b) ==
  LET ts == Statements(b) IN
  \A i \in 1..Len(ts) : Interval(ts[i]) = DocumentedInterval(ts[i].level)

LevelCount(b, level) ==
  LET ts == Statements(b) IN Cardinality({i \in 1..Len(ts) : ts[i].level = level})

\* C5: every section that restates the risk-level boundaries states the same
\* three constants, low <= 36, medium 37-70, high > 70: the introduction, the
\* per-position note and the summary of generate-docx-template.py and the
\* summary of generate-template.py.
C5_SameThresholds ==
  /\ Consistent(body)
  /\ \A x \in GeneratedFiles :
       /\ Consistent(x.body)
       /\ \A level \in {"low", "medium", "high"} :
            LevelCount(x.body, level) =
              CASE x.writer = "docx" -> 3
                [] x.writer = "gen" -> 1
                [] OTHER -> 0

C5_Witness ==
  /\ cur = "gen"
  /\ status = "running"
  /\ Len(Statements(body)) = 3
  /\ \E x \in GeneratedFiles : x.writer = "docx" /\ Len(Statements(x.body)) = 9

\* C6: for every E, P, F in 1..6 the score R = E x P x F has exactly one
\* level: low iff R <= 36, medium iff 37 <= R <= 70, high iff R > 70; the
\* notations '36 < R <= 70' and '37-70' classify every score in 1..216 alike,
\* none unclassified or doubly classified.
C6_OneLevel ==
  risk.r # 0 =>
    /\ risk.e # 0 => risk.r = risk.e * risk.p * risk.f
    /\ risk.docx = risk.gen
    /\ Cardinality(risk.docx) = 1
    /\ ("low" \in risk.docx) <=> (risk.r <= 36)
    /\ ("medium" \in risk.docx) <=> (37 <= risk.r /\ risk.r <= 70)
    /\ ("high" \in risk.docx) <=> (risk.r > 70)

C6_Witness == risk.e = 6 /\ risk.p = 6 /\ risk.f = 1 /\ risk.docx = {"low"}

\* C7: when document-library initialization fails in a run of
\* generate-docx-template.py (python-docx cannot be loaded or Document()
\* cannot be created) the handler prints the error and then the hint
\* 'pip install python-docx', and the run ends without an uncaught exception.
C7_InitFailureHandled ==
  (/\ cur = "docx"
   /\ status # "running"
   /\ raisedAt # 0
   /\ Prog(cur)[raisedAt].op \in {"import", "document"})
  => /\ status = "done"
     /\ caught
     /\ [i \in 1..Len(console) |-> console[i].tag]
          = <<"error", "blank", "make_sure", "pip_install">>

\* C8: merge_all_results.py opens exactly one file,
\* 'sistematizacija-knowledge-base-backup.json', in read mode, takes the list
\* under 'positions', and never creates, writes or modifies a file: it only
\* prints.
C8_MergeReadsOnly ==
  /\ \A w \in writes : w.script # "merge"
  /\ \A x \in fs : x.writer # "merge"
  /\ cur = "merge" =>
       /\ saved = <<>>
       /\ Len(opened) <= 1
       /\ \A i \in 1..Len(opened) :
            opened[i] = [path |-> <<"sistematizacija-knowledge-base-backup.json">>,
                         mode |-> "r"]
       /\ status = "done" =>
            /\ Len(opened) = 1
            /\ mem.deepseek_positions = input.positions
            /\ Len(console) = 9

C8_Witness ==
  /\ cur = "merge"
  /\ status = "done"
  /\ Len(mem.deepseek_positions) >= 1
  /\ fs # {}

OutputPath(s) ==
  CASE s = "create" -> create_output_path
    [] s = "gen" -> gen_output_path
    [] s = "docx" -> docx_output_path

\* C9: a run of a generator in which no step fails writes exactly one file:
\* doc.save is executed once, to one fixed path, and nothing is added to the
\* document after the save.
C9_SavedOnceAtEnd ==
  cur \in Generators =>
    /\ Len(saved) <= 1
    /\ \A i \in 1..Len(saved) :
         /\ saved[i].body = body
         /\ saved[i].path = Resolve(IntendedCwd(cur), OutputPath(cur))
         /\ \E x \in fs : x.path = saved[i].path /\ x.writer = cur /\ x.body = body
    /\ (status = "done" /\ ~caught) => Len(saved) = 1

C9_Witness ==
  /\ cur = "gen"
  /\ status = "done"
  /\ Len(saved) = 1
  /\ Len(body) > 50

\* C10: run from their intended working directories, no two scripts write the
\* same output file, so one script's output never overwrites another's.
C10_DistinctOutputs ==
  \A a \in writes : \A b \in writes : a.path = b.path => a.script = b.script

(***************************************************************************)
(* The documented placeholder namespace.  Each documented field is the set *)
(* of names the generators spell it with (snake_case in create_template.py,*)
(* camelCase in the two backend scripts).                                  *)
(***************************************************************************)
CompanyFields ==
  { {"company.name"},
    {"company.address"},
    {"company.city"},
    {"company.pib"},
    {"company.registration_number", "company.registrationNumber", "company.maticniBroj"},
    {"company.activity_code", "company.activityCode"},
    {"company.activity_description", "company.activityDescription"},
    {"company.director"},
    {"company.bzr_responsible_person", "company.bzrResponsiblePerson"},
    {"company.employee_count", "company.employeeCount"} }

PositionFields ==
  { {"position_name", "positionName"},
    {"position_code", "positionCode"},
    {"department"},
    {"required_education", "requiredEducation"},
    {"required_experience", "requiredExperience"},
    {"employees_male", "maleCount"},
    {"employees_female", "femaleCount"},
    {"job_description", "workDescription"} }

RiskFields ==
  { {"hazard.hazard_name_sr", "hazardName"},
    {"hazard.hazard_code", "hazardCode"},
    {"hazard.hazard_category", "hazardCategory"},
    {"initial_e", "ei"}, {"initial_p", "pi"}, {"initial_f", "fi"},
    {"initial_ri", "ri"},
    {"corrective_measures", "correctiveMeasures"},
    {"residual_e", "e"}, {"residual_p", "p"}, {"residual_f", "f"},
    {"residual_r", "r"},
    {"risk_level", "riskLevel"} }

SummaryFields ==
  { {"summary.total_positions", "summary.totalPositions"},
    {"summary.total_risks", "summary.totalRisks"},
    {"summary.low_risk_count", "summary.lowRiskCount"},
    {"summary.medium_risk_count", "summary.mediumRiskCount"},
    {"summary.high_risk_count", "summary.highRiskCount"},
    {"summary.high_risk_positions", "summary.highRiskPositions"} }

\* some token of s at a position in idx is a placeholder of field f
Carries(s, idx, f) ==
  \E i \in idx : s[i].t = "field" /\ s[i].name \in f

\* positions of s strictly inside the first loop named n, {} if there is none
FirstLoopBody(s, n) ==
  LET opens == {i \in 1..Len(s) : s[i] = Open(n)} IN
  IF opens = {} THEN {}
  ELSE LET a == CHOOSE i \in opens : \A j \in opens : i <= j
           closes == {i \in 1..Len(s) : i > a /\ s[i] = Close(n)}
       IN IF closes = {} THEN {i \in 1..Len(s) : i > a}
          ELSE {i \in 1..Len(s) :
                  i > a /\ i < (CHOOSE c \in closes : \A d \in closes : c <= d)}

\* positions of s strictly inside the positions loop that holds the risks
\* loop: the risk-assessment part of the template
RiskSection(s) ==
  LET ropens == {i \in 1..Len(s) : s[i] = Open("risks")} IN
  IF ropens = {} THEN {}
  ELSE LET r == CHOOSE i \in ropens : \A j \in ropens : i <= j
           popens == {i \in 1..Len(s) : i < r /\ s[i] = Open("positions")}
           pcloses == {i \in 1..Len(s) : i > r /\ s[i] = Close("positions")}
       IN IF popens = {} \/ pcloses = {} THEN {}
          ELSE {i \in 1..Len(s) :
                  /\ i > (CHOOSE a \in popens : \A b \in popens : a >= b)
                  /\ i < (CHOOSE c \in pcloses : \A d \in pcloses : c <= d)}

\* C11: each of the three generated templates contains a placeholder for
\* every documented Company field: name, address, city, tax id (PIB),
\* registration number, activity code, activity description, director,
\* safety-responsible (BZR) person and employee count.
C11_CompanyFields ==
  FinishedTemplate =>
    LET s == Stream(saved[1].body) IN
    \A f \in CompanyFields : Carries(s, 1..Len(s), f)

\* C12: in each of the three generated templates the body of the
\* position-systematization positions loop has a placeholder for every
\* documented Position field: name, code, department, required education,
\* required experience, male and female headcount, work description.
C12_PositionFields ==
  FinishedTemplate =>
    LET s == Stream(saved[1].body) IN
    \A f \in PositionFields : Carries(s, FirstLoopBody(s, "positions"), f)

\* C13: in each of the three generated templates the risk-assessment section
\* has a placeholder for every documented Risk field: hazard name, code and
\* category, initial E, P, F and score, corrective measures, residual E, P, F
\* and score, and the risk level.
C13_RiskFields ==
  FinishedTemplate =>
    LET s == Stream(saved[1].body) IN
    \A f \in RiskFields : Carries(s, RiskSection(s), f)

(***************************************************************************)
(* Sections.  Each generator marks the start of a section with a banner    *)
(* comment; a builder call belongs to the section of the last banner above *)
(* it.                                                                     *)
(***************************************************************************)
Sec(from, name) == [from |-> from, name |-> name]

create_sections ==
  << Sec(24, "cover"), Sec(52, "intro"), Sec(74, "company"),
     Sec(107, "positions"), Sec(153, "risks"), Sec(221, "summary"),
     Sec(252, "ppe"), Sec(277, "training"), Sec(302, "medical"),
     Sec(327, "conclusion"), Sec(346, "signatures") >>

gen_sections ==
  << Sec(98, "cover"), Sec(114, "company"), Sec(134, "positions"),
     Sec(162, "risks"), Sec(250, "summary"), Sec(290, "signatures") >>

docx_sections ==
  << Sec(32, "cover"), Sec(75, "intro"), Sec(127, "company"),
     Sec(146, "organization"), Sec(160, "positions"), Sec(186, "risks"),
     Sec(262, "summary"), Sec(294, "appendices"), Sec(310, "signatures") >>

Sections(s) ==
  CASE s = "create" -> create_sections
    [] s = "gen" -> gen_sections
    [] s = "docx" -> docx_sections
    [] OTHER -> <<>>

SectionAt(s, ln) ==
  LET t == Sections(s)
      above == {i \in 1..Len(t) : t[i].from <= ln}
  IN IF above = {} THEN "setup"
     ELSE t[CHOOSE i \in above : \A j \in above : i >= j].name

IsBuilder(st) ==
  st.op \in {"para", "run", "heading", "break", "table", "setrow", "setcell"}

SaveIdx(s) == CHOOSE k \in 1..Len(Prog(s)) : Prog(s)[k].op = "save"

\* the builder calls a run of generator s has made when it reaches doc.save
Built(s) == SelectSeq(SubSeq(Prog(s), 1, SaveIdx(s) - 1), IsBuilder)

\* the sections in the order a run of generator s emits them
Emitted(s) ==
  LET b == Built(s)
      sec == [i \in 1..Len(b) |-> SectionAt(s, b[i].ln)]
      first == SelectSeq([i \in 1..Len(b) |-> i],
                         LAMBDA i : i = 1 \/ sec[i] # sec[i - 1])
  IN [j \in 1..Len(first) |-> sec[first[j]]]

StmtTokens(st) ==
  IF st.op = "setrow" THEN st.cells[1] \o st.cells[2] ELSE st.toks

DeclaredSections ==
  <<"cover", "company", "positions", "risks", "summary", "appendices",
    "signatures">>

IsDeclared(x) == \E i \in 1..Len(DeclaredSections) : DeclaredSections[i] = x

\* C14: each of the three generated templates has a summary section with a
\* placeholder for every Summary aggregate: total positions, total risks,
\* the counts of low, medium and high risks, and the high-risk positions.
C14_SummaryFields ==
  FinishedTemplate =>
    LET b == Built(cur) IN
    \A f \in SummaryFields :
      \E k \in 1..Len(b) :
        /\ SectionAt(cur, b[k].ln) = "summary"
        /\ Carries(StmtTokens(b[k]), 1..Len(StmtTokens(b[k])), f)

\* C15: a run of each generator emits the declared sections cover page,
\* company info, position systematization, risk assessment, summary,
\* appendices, signatures, each exactly once and in that order, and
\* signatures is the last section before the document is saved.
C15_SectionOrder ==
  FinishedTemplate =>
    LET e == Emitted(cur) IN
    /\ SelectSeq(e, IsDeclared) = DeclaredSections
    /\ e[Len(e)] = "signatures"

RiskFieldNames == UNION RiskFields

\* C16: in every generated template each risk-field placeholder of the
\* risk-assessment section lies, in document order, after the risks loop
\* opener and before its closer; in particular the data row of the risk
\* table stands between the two markers.
C16_RiskFieldsInsideLoop ==
  FinishedTemplate =>
    LET s == Stream(saved[1].body) IN
    \A i \in RiskSection(s) :
      (s[i].t = "field" /\ s[i].name \in RiskFieldNames)
        => i \in FirstLoopBody(s, "risks")

\* number of statements with operation op among the first n of script s
CountOps(s, n, op) == Cardinality({k \in 1..n : Prog(s)[k].op = op})

ConsoleTags == {console[i].tag : i \in 1..Len(console)}

\* C17: the except clause around create_template() in
\* generate-docx-template.py is the only error path.  A failure at any step
\* of generate-template.py, create_template.py or merge_all_results.py
\* (a missing input file or a missing 'positions' key included) is never
\* caught: the run stops at the failing statement and nothing after it, in
\* particular no save and no success message, is executed.
C17_OnlyErrorPath ==
  /\ caught => cur = "docx"
  /\ (cur \in {"gen", "create", "merge"} /\ raisedAt # 0) =>
       /\ status = "uncaught"
       /\ ~caught
       /\ pc = raisedAt
       /\ Len(saved) = CountOps(cur, raisedAt - 1, "save")
       /\ Len(console) = CountOps(cur, raisedAt - 1, "print")
       /\ Len(opened) = CountOps(cur, raisedAt - 1, "open")

C17_Witness ==
  /\ cur = "merge"
  /\ status = "uncaught"
  /\ Cur.op = "getkey"
  /\ input.valid /\ ~input.haskey
  /\ console = <<>>

\* C18: once create_template() has failed in generate-docx-template.py there
\* is no retry and no recovery: control stays in the except clause, so
\* create_template() runs at most once; the except clause does not save; and
\* when the failure came before doc.save the run writes no output file and
\* never prints '[OK] Template created'.
C18_NoRetry ==
  (cur = "docx" /\ caught) =>
    /\ pc >= HandlerPc("docx")
    /\ Len(saved) <= 1
    /\ "ok" \in ConsoleTags => saved # <<>>
    /\ raisedAt <= SaveIdx("docx") => (saved = <<>> /\ "ok" \notin ConsoleTags)

C18_Witness ==
  /\ cur = "docx"
  /\ caught
  /\ status = "done"
  /\ raisedAt < SaveIdx("docx")
  /\ body # <<>>
  /\ saved = <<>>
  /\ "error" \in ConsoleTags

\* the statement deepseek_positions = deepseek_data['positions']
GetKeyIdx == CHOOSE k \in 1..Len(ProgMerge) : ProgMerge[k].op = "getkey"

TableStmts(s) == {k \in 1..Len(Prog(s)) : Prog(s)[k].op = "table"}

\* the row additions and cell writes that follow the creation of the table
\* at statement t, up to the creation of the next table
FillOf(s, t) ==
  {k \in (t + 1)..Len(Prog(s)) :
     /\ Prog(s)[k].op \in {"addrow", "setrow", "setcell"}
     /\ \A u \in TableStmts(s) : u <= t \/ u > k}

RowsOf(s, t) ==
  Prog(s)[t].rows + Cardinality({k \in FillOf(s, t) : Prog(s)[k].op = "addrow"})

\* the (row, column) indices the filling of the table at t assigns to
Written(s, t) ==
  UNION { CASE Prog(s)[k].op = "setrow" ->
                 {<<Prog(s)[k].r, 0>>, <<Prog(s)[k].r, 1>>}
            [] Prog(s)[k].op = "setcell" -> {<<Prog(s)[k].r, Prog(s)[k].c>>}
            [] OTHER -> {}
          : k \in FillOf(s, t) }

Filled(s, t) ==
  Written(s, t) = (0..(RowsOf(s, t) - 1)) \X (0..(Prog(s)[t].cols - 1))

\* rows and columns of the tables of body b, in document order
Dims(b) ==
  LET ts == SelectSeq(b, LAMBDA x : x.kind = "table")
  IN [i \in 1..Len(ts) |-> <<Len(ts[i].cells), Len(ts[i].cells[1])>>]

\* C20: every table cell write uses an existing row and column index.  Each
\* table has as many rows as its data list (employer 7, position 7, risk 16,
\* signature 4 in create_template.py) and as many columns as its header and
\* placeholder lists (11 in generate-docx-template.py, 13 in
\* create_risk_table, 5 in the summary table), so filling a table never
\* indexes out of range and leaves no cell of a data row unset.
C20_CellWritesInRange ==
  /\ At("setrow") => (CellExists(Cur.r, 0) /\ CellExists(Cur.r, 1))
  /\ At("setcell") => CellExists(Cur.r, Cur.c)
  /\ (status = "done" /\ ~caught /\ cur \in {"create", "docx", "risk_table"}) =>
       /\ \A t \in TableStmts(cur) : Filled(cur, t)
       /\ Dims(body) =
            CASE cur = "create" ->
                   << <<7, 2>>, <<7, 2>>, <<16, 2>>, <<1, 5>>, <<4, 2>> >>
              [] cur = "docx" -> << <<2, 11>> >>
              [] cur = "risk_table" -> << <<2, 13>> >>
       /\ cur \in {"docx", "risk_table"} =>
            \A j \in 1..Len(body[tbl].cells[2]) : body[tbl].cells[2][j] # <<>>

C20_Witness ==
  /\ cur = "risk_table"
  /\ status = "done"
  /\ Dims(body) = << <<2, 13>> >>
  /\ body[tbl].cells[2][13] = <<Fld("riskLevel")>>

RECURSIVE SumSeq(_)
SumSeq(q) == IF q = <<>> THEN 0 ELSE q[1] + SumSeq(Tail(q))

\* C21: in merge_all_results.py each hard-coded per-agent count equals the
\* inclusive size of the position-number range stated for it (1-18 = 18,
\* 26-45 = 20, 61-65 = 5, 79-93 = 15, 116-136 = 21), the five ranges are
\* pairwise disjoint and lie within 1..137, and the counts add up to the 79
\* the script assigns to claude_positions_count.
C21_CountsMatchRanges ==
  (cur = "merge" /\ mem.claude_positions_count # 0) =>
    /\ Len(agent_counts) = Len(agent_ranges)
    /\ \A i \in 1..Len(agent_ranges) :
         /\ agent_ranges[i].count = agent_counts[i]
         /\ agent_counts[i] = Cardinality(agent_ranges[i].lo..agent_ranges[i].hi)
         /\ 1 <= agent_ranges[i].lo
         /\ agent_ranges[i].lo <= agent_ranges[i].hi
         /\ agent_ranges[i].hi <= total_positions
    /\ \A i, j \in 1..Len(agent_ranges) :
         i # j => (agent_ranges[i].lo..agent_ranges[i].hi)
                    \cap (agent_ranges[j].lo..agent_ranges[j].hi) = {}
    /\ mem.claude_positions_count = SumSeq(agent_counts)
    /\ mem.claude_positions_count = 79
    /\ total_positions = 137

C21_Witness ==
  /\ cur = "merge"
  /\ status = "done"
  /\ mem.claude_positions_count = 79
  /\ \E i \in 1..Len(console) : console[i].tag = "claude" /\ console[i].val = 79
====
